---- MODULE Spec2Model ----
(***************************************************************************)
(* LifeCompass AI backend: the AI provider adapters, the provider registry *)
(* (AIProviderManager) and the /api/chat handler of main.py.               *)
(***************************************************************************)
EXTENDS FiniteSets, Integers, Naturals, Sequences, TLC

(***************************************************************************)
(* Bounds of the model.                                                    *)
(***************************************************************************)
\* At most this many of the five API-key environment variables are set.
MaxKeys == 2

\* The number of get_status calls a caller compares.
MaxSnapshots == 2

\* The database holds at most this many applications.
MaxApplications == 2

\* The database holds at most this many status history entries.
MaxHistory == 3

\* The database holds at most this many chat messages.
MaxMessages == 2

\* The database holds at most this many job postings.
MaxPostings == 1

\* The number of HTTP requests that can be in flight at once.
MaxRequests == 2

(***************************************************************************)
(* Values.                                                                 *)
(***************************************************************************)
\* Python's None (an unset environment variable, an absent field).
None == "<None>"

\* The identifiers in the order _load_providers inserts them in the mapping
\* (the order providers.items() iterates in).
ProviderOrder == <<"google", "openai", "anthropic", "huggingface", "openrouter", "ollama">>

ProviderIds == {ProviderOrder[i] : i \in 1..Len(ProviderOrder)}

\* The adapters that take an API key (every adapter but the local server).
KeyProviders == ProviderIds \ {"ollama"}

\* What an API-key variable can hold: unset or empty (os.getenv is falsy),
\* whitespace only (truthy, but strip() is empty), or a usable key.
KeyStates == {"unset", "blank", "valid"}

\* Values of PRIMARY_AI_PROVIDER: unset, empty, a known identifier, or any
\* other string.
PrimaryOverrides == {None, "", "bogus"} \cup ProviderIds

\* Values of ChatMessage.provider and of the provider_id argument.
RequestedIds == {None, "", "bogus"} \cup ProviderIds

\* What the backend does with one generation request: the transport raises
\* (connection error, timeout), it answers with a status other than 200, or
\* it answers 200 with a body of one of these shapes:
\*   text          the expected structure with a string in the text field
\*   null_text     the expected structure with JSON null in the text field
\*   missing_field the expected structure without the text field
\*   empty         an empty JSON object / array
\*   not_json      a body that is not JSON
Outcomes == {"exception", "non200", "ok_text", "ok_null_text", "ok_missing_field",
             "ok_empty", "ok_not_json"}

\* What the Ollama server does with the GET /api/tags of is_configured: it
\* answers 200, it answers another status, the connection fails, or the
\* request times out.
ProbeOutcomes == {"ok200", "non200", "connection_error", "timeout"}

\* The users of the system with their roles (models.UserRole), and the
\* role lists the endpoints pass to require_role.
Users == {"seeker", "recruiter", "admin"}

user_role(u) ==
    CASE u = "seeker"    -> "job_seeker"
      [] u = "recruiter" -> "recruiter"
      [] u = "admin"     -> "admin"

AllowedRoleLists == {{"job_seeker"}, {"recruiter", "admin"}}

\* What a request carries in its Authorization header: nothing, a token that
\* does not verify or names no user, or a valid token of a user.
Credentials == {"missing", "invalid"} \cup Users

RequestIds == 1..MaxRequests

\* A request slot that holds no request.
NoRequest == [pc |-> "free", cred |-> "missing", user |-> None, seen |-> None,
              result |-> None]

\* models.ApplicationStatus and models.JobStatus.
ApplicationStatuses ==
    {"submitted", "under_review", "shortlisted", "interview_scheduled", "interviewed",
     "offered", "rejected", "withdrawn"}

JobStatuses == {"draft", "active", "paused", "closed"}

\* The statuses recruiters are seen to set, and the ones job postings are
\* switched between.
NewStatuses == {"offered", "rejected"}

NewJobStatuses == {"active", "paused"}

\* The job posting in the database and an identifier that names none.
JobIds == {"job", "no_such_job"}

\* The recruiter_id of the job posting.
JobOwner == "recruiter"

\* The applicant_id, updated_by and recruiter_id values callers pass.
ApplicantIds == {"seeker", "seeker_b"}

CallerIds == {"recruiter", "seeker"}

\* The notes callers pass.
NotesValues == {None, "notes"}

\* The arguments of the calls that run side by side on the worker threads.
RacingApplicants == {"seeker"}

RacingStatuses == {"offered"}

\* The threads that run the synchronous endpoint functions.
Workers == {"w1", "w2"}

\* A worker that is not inside a service call.
NoServiceCall ==
    [pc |-> "free", op |-> "none", app |-> 0, rest |-> <<>>, job |-> None,
     applicant |-> None, old_status |-> None, new_status |-> None, by |-> None,
     notes |-> None, user |-> None]

\* No service call has returned yet.
NoReturn ==
    [op |-> "none", job |-> None, app |-> 0, applicant |-> None, by |-> None,
     user |-> None, result |-> None]

\* No mark_messages_as_read call has returned since the last message.
NoMark ==
    [op |-> "none", user |-> None, partner |-> None, application |-> None, count |-> 0]

\* No job posting request has been answered.
NoJobResponse == [op |-> "none", status |-> 0]

\* provider_name of each adapter (with the default model names).
provider_name(p) ==
    CASE p = "google"      -> "Google Gemini"
      [] p = "openai"      -> "OpenAI (gpt-3.5-turbo)"
      [] p = "anthropic"   -> "Anthropic (claude-3-sonnet-20240229)"
      [] p = "huggingface" -> "Hugging Face (microsoft/DialoGPT-medium)"
      [] p = "openrouter"  -> "OpenRouter (google/gemini-flash-1.5)"
      [] p = "ollama"      -> "Ollama (llama2)"

(***************************************************************************)
(* State.                                                                  *)
(***************************************************************************)
VARIABLES
    providers,          \* AIProviderManager.providers: the keys of the mapping
    primary_provider,   \* AIProviderManager.primary_provider
    api_key,            \* api_key of each key-taking adapter (its KeyStates value)
    client,             \* GoogleGeminiProvider._client is set
    env,                \* what the process started with: the API keys, the value of
                        \* PRIMARY_AI_PROVIDER, whether the Gemini client can be
                        \* built, and what the Ollama probes of _load_providers met
    ollamaUp,           \* the local Ollama server answers GET /api/tags with 200
    pc,                 \* position of the operation in progress
    op,                 \* the operation in progress or last finished
    arg,                \* its provider argument (ChatMessage.provider / provider_id)
    first,              \* the AIResponse of the first generate_response of the operation
    second,             \* the AIResponse of the fallback generate_response
    http,               \* what chat_with_ai answered
    status,             \* what get_status returned
    resolved,           \* the adapter get_provider returned, per call of the operation
    trace,              \* adapter invocations and outbound requests of the operation
    current_user,       \* user_roles._current_user (module global)
    requests,           \* the HTTP requests in flight, each with its position
    snapshots,          \* what the get_status calls of a caller returned, in order
    job_status,         \* JobPosting.status of the job posting in the database
    applications,       \* the rows of table applications, in insertion order
    history,            \* the rows of table application_status_history, in insertion order
    calls,              \* the ApplicationService calls of the worker threads, each with its position
    returned,           \* the service call that returned or raised last, with its result
    messages,           \* the rows of table chat_messages, in insertion order
    marked,             \* the last mark_messages_as_read call with the count it returned
    postings,           \* the rows of table job_postings written through the endpoints
    job_response        \* what the last job posting request was answered

vars == <<providers, primary_provider, api_key, client, env, ollamaUp, pc, op, arg,
          first, second, http, status, resolved, trace, current_user, requests,
          snapshots,
          job_status, applications, history, calls, returned,
          messages, marked, postings, job_response>>

\* The database of the applicant tracking services and the calls on them.
ats == <<job_status, applications, history, calls, returned>>

\* The database of ChatService and its last call.
chat == <<messages, marked>>

\* The job postings the endpoints of /api/jobs stored, and their last answer.
jobs == <<postings, job_response>>

\* The state of the services behind the endpoints other than /api/chat.
services == <<ats, chat, jobs>>

\* The state of user_roles and of the requests that pass its middleware.
auth == <<current_user, requests>>

registry == <<providers, primary_provider, api_key, client>>

\* What no operation on the manager writes.
fixed == <<registry, env, auth, snapshots, services>>

\* The operation in progress on the manager and what it has produced.
operation == <<pc, op, arg, first, second, http, status, resolved, trace>>

(***************************************************************************)
(* AIResponse and the result of a call.                                    *)
(***************************************************************************)
\* The dataclass AIResponse (usage carries no behaviour and is left out).
AIResponse(success, text, error, provider) ==
    [success |-> success, text |-> text, error |-> error, provider |-> provider]

\* Filler for "no response yet".
NoResponse == AIResponse(FALSE, None, None, None)

\* A call either returns an AIResponse or raises an exception.
Returned(r) == [raised |-> FALSE, exc |-> None, response |-> r]

Raised(e) == [raised |-> TRUE, exc |-> e, response |-> NoResponse]

NoCall == Returned(NoResponse)

\* try: <call> except Exception as e: return AIResponse(False, "", f"{msg}: {e}")
Try(call, msg, name) ==
    IF call.raised
    THEN Returned(AIResponse(FALSE, "", msg \o ": " \o call.exc, name))
    ELSE call

(***************************************************************************)
(* The adapters.                                                           *)
(***************************************************************************)
\* is_configured of the key-taking adapters: bool(api_key and api_key.strip()).
KeyConfigured(key) == key = "valid"

\* OllamaProvider.is_configured: GET /api/tags answered 200; any exception
\* is swallowed and means False.
OllamaConfigured(up) == up

\* The try block of OllamaProvider.is_configured: requests.get raises when
\* the server cannot be reached in time, else the status is compared with 200.
OllamaProbeRequest(probe) ==
    CASE probe = "ok200"            -> [raised |-> FALSE, value |-> TRUE]
      [] probe = "non200"           -> [raised |-> FALSE, value |-> FALSE]
      [] probe = "connection_error" -> [raised |-> TRUE, value |-> FALSE]
      [] probe = "timeout"          -> [raised |-> TRUE, value |-> FALSE]
      [] OTHER                      -> [raised |-> FALSE, value |-> FALSE]

\* An is_configured without the except clause.
OllamaIsConfiguredNoExcept(probe) == OllamaProbeRequest(probe)

\* OllamaProvider.is_configured: try: <probe> except: return False.
OllamaIsConfigured(probe) ==
    IF OllamaProbeRequest(probe).raised
    THEN [raised |-> FALSE, value |-> FALSE]
    ELSE OllamaProbeRequest(probe)

\* is_configured of adapter p, given the adapters' keys and the server's state.
is_configured(p, keys, up) ==
    IF p = "ollama" THEN OllamaConfigured(up) ELSE KeyConfigured(keys[p])

\* The body of GoogleGeminiProvider.generate_response's try block: the SDK
\* raises on transport and API errors, and response.text raises when the
\* candidate carries no text.
GoogleRequest(outcome) ==
    IF outcome = "ok_text"
    THEN Returned(AIResponse(TRUE, "text", None, provider_name("google")))
    ELSE Raised(outcome)

GoogleGenerate(hasClient, outcome) ==
    IF ~hasClient
    THEN Returned(AIResponse(FALSE, "", "Google Gemini not properly configured",
                             provider_name("google")))
    ELSE Try(GoogleRequest(outcome), "Google Gemini error", provider_name("google"))

\* The try block of the OpenAI and Anthropic adapters: POST, then on 200
\* response.json() and the subscript path to the text field.
ChatCompletionRequest(p, label, outcome) ==
    CASE outcome = "exception"        -> Raised("RequestException")
      [] outcome = "non200"           ->
            Returned(AIResponse(FALSE, "", label \o " API error: non200", provider_name(p)))
      [] outcome = "ok_not_json"      -> Raised("JSONDecodeError")
      [] outcome = "ok_empty"         -> Raised("KeyError")
      [] outcome = "ok_missing_field" -> Raised("KeyError")
      [] outcome = "ok_null_text"     -> Returned(AIResponse(TRUE, None, None, provider_name(p)))
      [] outcome = "ok_text"          -> Returned(AIResponse(TRUE, "text", None, provider_name(p)))

OpenAIGenerate(key, outcome) ==
    IF ~KeyConfigured(key)
    THEN Returned(AIResponse(FALSE, "", "OpenAI API key not configured",
                             provider_name("openai")))
    ELSE Try(ChatCompletionRequest("openai", "OpenAI", outcome), "OpenAI error",
             provider_name("openai"))

AnthropicGenerate(key, outcome) ==
    IF ~KeyConfigured(key)
    THEN Returned(AIResponse(FALSE, "", "Anthropic API key not configured",
                             provider_name("anthropic")))
    ELSE Try(ChatCompletionRequest("anthropic", "Anthropic", outcome), "Anthropic error",
             provider_name("anthropic"))

\* The try block of HuggingFaceProvider.generate_response: a non-empty list
\* is read with result[0].get('generated_text', ''), and text.startswith
\* raises on a null text; anything else is an unexpected format.
HuggingFaceRequest(outcome) ==
    LET name == provider_name("huggingface") IN
    CASE outcome = "exception"        -> Raised("RequestException")
      [] outcome = "non200"           ->
            Returned(AIResponse(FALSE, "", "Hugging Face API error: non200", name))
      [] outcome = "ok_not_json"      -> Raised("JSONDecodeError")
      [] outcome = "ok_empty"         ->
            Returned(AIResponse(FALSE, "", "Unexpected response format from Hugging Face", name))
      [] outcome = "ok_missing_field" -> Returned(AIResponse(TRUE, "", None, name))
      [] outcome = "ok_null_text"     -> Raised("AttributeError")
      [] outcome = "ok_text"          -> Returned(AIResponse(TRUE, "text", None, name))

HuggingFaceGenerate(key, outcome) ==
    IF ~KeyConfigured(key)
    THEN Returned(AIResponse(FALSE, "", "Hugging Face API key not configured",
                             provider_name("huggingface")))
    ELSE Try(HuggingFaceRequest(outcome), "Hugging Face error", provider_name("huggingface"))

\* The try block of OpenRouterProvider.generate_response: 'choices' must be
\* in the result and non-empty before the subscript path is followed.
OpenRouterRequest(outcome) ==
    LET name == provider_name("openrouter") IN
    CASE outcome = "exception"        -> Raised("RequestException")
      [] outcome = "non200"           ->
            Returned(AIResponse(FALSE, "", "OpenRouter API error: non200", name))
      [] outcome = "ok_not_json"      -> Raised("JSONDecodeError")
      [] outcome = "ok_empty"         ->
            Returned(AIResponse(FALSE, "", "No response content from OpenRouter", name))
      [] outcome = "ok_missing_field" -> Raised("KeyError")
      [] outcome = "ok_null_text"     -> Returned(AIResponse(TRUE, None, None, name))
      [] outcome = "ok_text"          -> Returned(AIResponse(TRUE, "text", None, name))

OpenRouterGenerate(key, outcome) ==
    IF ~KeyConfigured(key)
    THEN Returned(AIResponse(FALSE, "", "OpenRouter API key not configured",
                             provider_name("openrouter")))
    ELSE Try(OpenRouterRequest(outcome), "OpenRouter error", provider_name("openrouter"))

\* The try block of OllamaProvider.generate_response: the text is
\* result.get('response', '').
OllamaRequest(outcome) ==
    LET name == provider_name("ollama") IN
    CASE outcome = "exception"        -> Raised("RequestException")
      [] outcome = "non200"           ->
            Returned(AIResponse(FALSE, "", "Ollama API error: non200", name))
      [] outcome = "ok_not_json"      -> Raised("JSONDecodeError")
      [] outcome = "ok_empty"         -> Returned(AIResponse(TRUE, "", None, name))
      [] outcome = "ok_missing_field" -> Returned(AIResponse(TRUE, "", None, name))
      [] outcome = "ok_null_text"     -> Returned(AIResponse(TRUE, None, None, name))
      [] outcome = "ok_text"          -> Returned(AIResponse(TRUE, "text", None, name))

\* OllamaProvider.generate_response has no configured check before the POST.
OllamaGenerate(outcome) ==
    Try(OllamaRequest(outcome), "Ollama error", provider_name("ollama"))

\* generate_response of adapter p.
AdapterGenerate(p, keys, hasClient, outcome) ==
    CASE p = "google"      -> GoogleGenerate(hasClient, outcome)
      [] p = "openai"      -> OpenAIGenerate(keys[p], outcome)
      [] p = "anthropic"   -> AnthropicGenerate(keys[p], outcome)
      [] p = "huggingface" -> HuggingFaceGenerate(keys[p], outcome)
      [] p = "openrouter"  -> OpenRouterGenerate(keys[p], outcome)
      [] p = "ollama"      -> OllamaGenerate(outcome)

\* Adapter p's generate_response reaches its outbound request: the Google
\* adapter needs its client, the key-taking adapters a configured key, and
\* the Ollama adapter always posts.
AdapterSends(p, keys, hasClient) ==
    CASE p = "google" -> hasClient
      [] p = "ollama" -> TRUE
      [] OTHER        -> KeyConfigured(keys[p])

(***************************************************************************)
(* AIProviderManager.                                                      *)
(***************************************************************************)
\* Python truthiness of an optional string: neither None nor "".
Truthy(s) == s # None /\ s # ""

\* A _load_providers that registers every key adapter, with or without a
\* key in the environment.
LoadAllProviders(keys, upAtLoad) ==
    KeyProviders \cup (IF OllamaConfigured(upAtLoad) THEN {"ollama"} ELSE {})

\* The keys of the mapping after the registration part of _load_providers:
\* an adapter per API key os.getenv finds truthy, and the Ollama adapter
\* when its is_configured probe answered at that moment.
LoadProviders(keys, upAtLoad) ==
    {p \in KeyProviders : keys[p] # "unset"}
        \cup (IF OllamaConfigured(upAtLoad) THEN {"ollama"} ELSE {})

\* A _get_first_available_provider that returns the first key of the mapping
\* without asking is_configured.
FirstRegisteredProvider(provs, keys, up) ==
    LET idx == {i \in 1..Len(ProviderOrder) : ProviderOrder[i] \in provs}
    IN  IF idx = {} THEN None
        ELSE ProviderOrder[CHOOSE i \in idx : \A j \in idx : i <= j]

\* _get_first_available_provider: the first key of the mapping, in insertion
\* order, whose adapter reports is_configured; None when there is none.
FirstAvailableProvider(provs, keys, up) ==
    LET idx == {i \in 1..Len(ProviderOrder) :
                    /\ ProviderOrder[i] \in provs
                    /\ is_configured(ProviderOrder[i], keys, up)}
    IN  IF idx = {} THEN None
        ELSE ProviderOrder[CHOOSE i \in idx : \A j \in idx : i <= j]

\* os.getenv('PRIMARY_AI_PROVIDER', <first available>): the variable's value
\* whenever it is set, whatever it is.
PrimaryProvider(override, firstAvailable) ==
    IF override # None THEN override ELSE firstAvailable

\* A get_provider that answers None for an identifier that is given but not
\* registered, instead of substituting the primary adapter.
get_provider_strict(provs, primary, id) ==
    IF Truthy(id)
    THEN (IF id \in provs THEN id ELSE None)
    ELSE IF Truthy(primary) /\ primary \in provs THEN primary
    ELSE None

\* get_provider: the requested adapter when the identifier is a key, else
\* the primary one when that is a key, else None.
get_provider(provs, primary, id) ==
    IF Truthy(id) /\ id \in provs THEN id
    ELSE IF Truthy(primary) /\ primary \in provs THEN primary
    ELSE None

\* generate_response of the manager, given the adapter get_provider returned.
ManagerGenerate(p, keys, hasClient, outcome) ==
    IF p = None
    THEN Returned(AIResponse(FALSE, "",
            "No AI provider configured. Please set up at least one AI API key.", "None"))
    ELSE AdapterGenerate(p, keys, hasClient, outcome)

\* What one manager generate_response leaves in the trace: the adapter
\* invocation and, when the adapter gets that far, its outbound request with
\* what the backend did with it.
GenerateEvents(p, keys, hasClient, outcome) ==
    IF p = None THEN <<>>
    ELSE <<<<"generate", p>>>>
            \o (IF AdapterSends(p, keys, hasClient)
                THEN <<<<"POST", p, outcome>>>> ELSE <<>>)

\* The loop of get_status over providers.items(), from position i on, with
\* the status built so far: a configured adapter is appended to
\* configured_providers and total_configured is incremented.
RECURSIVE StatusScan(_, _, _, _, _)
StatusScan(i, st, provs, keys, up) ==
    IF i > Len(ProviderOrder) THEN st
    ELSE LET p == ProviderOrder[i] IN
         IF p \in provs /\ is_configured(p, keys, up)
         THEN StatusScan(i + 1,
                         [st EXCEPT !.configured_providers = Append(@, p),
                                    !.total_configured = @ + 1],
                         provs, keys, up)
         ELSE StatusScan(i + 1, st, provs, keys, up)

\* A get_status whose total_configured counts the registered adapters.
get_status_count_registered(provs, primary, keys, up) ==
    [StatusScan(1, [configured_providers |-> <<>>,
                    primary_provider |-> primary,
                    total_configured |-> 0],
                provs, keys, up)
        EXCEPT !.total_configured = Cardinality(provs)]

\* get_status.
get_status(provs, primary, keys, up) ==
    StatusScan(1, [configured_providers |-> <<>>,
                   primary_provider |-> primary,
                   total_configured |-> 0],
               provs, keys, up)

\* Filler for "get_status not called".
NoStatus == [configured_providers |-> <<>>, primary_provider |-> None, total_configured |-> 0]

\* What get_status leaves in the trace: is_configured of the Ollama adapter
\* is a GET to the server.
StatusEvents(provs) ==
    IF "ollama" \in provs THEN <<<<"GET", "ollama">>>> ELSE <<>>

(***************************************************************************)
(* The answers of chat_with_ai.                                            *)
(***************************************************************************)
NoHttp ==
    [code |-> 0, reply |-> None, provider |-> None, success |-> FALSE,
     has_fallback |-> FALSE, fallback |-> FALSE, detail |-> None]

\* A success dict whose reply carries the fallback prefix in either case.
HttpReplyAlwaysPrefixed(text, provider, isFallback) ==
    [code |-> 200,
     reply |-> "[Using fallback provider] " \o text,
     provider |-> provider, success |-> TRUE,
     has_fallback |-> isFallback, fallback |-> isFallback, detail |-> None]

\* The dict returned on success, without and with the fallback key.
HttpReply(text, provider, isFallback) ==
    [code |-> 200,
     reply |-> IF isFallback THEN "[Using fallback provider] " \o text ELSE text,
     provider |-> provider, success |-> TRUE,
     has_fallback |-> isFallback, fallback |-> isFallback, detail |-> None]

\* raise HTTPException(status_code, detail).
HTTPException(code, detail) ==
    [code |-> code, reply |-> None, provider |-> None, success |-> FALSE,
     has_fallback |-> FALSE, fallback |-> FALSE, detail |-> detail]

\* An AfterFirst that tries the fallback after every failure, also when the
\* request named no provider.
AfterFirstAlwaysFallback(provider, r) ==
    IF r.raised
    THEN [pc |-> "done", http |-> HTTPException(500, "Unexpected error: " \o r.exc)]
    ELSE IF r.response.success
    THEN [pc |-> "done", http |-> HttpReply(r.response.text, r.response.provider, FALSE)]
    ELSE [pc |-> "fallback", http |-> NoHttp]

\* chat_with_ai after its first generate_response: the answer, or the move
\* to the fallback attempt when the request named a provider.
AfterFirst(provider, r) ==
    IF r.raised
    THEN [pc |-> "done", http |-> HTTPException(500, "Unexpected error: " \o r.exc)]
    ELSE IF r.response.success
    THEN [pc |-> "done", http |-> HttpReply(r.response.text, r.response.provider, FALSE)]
    ELSE IF Truthy(provider)
    THEN [pc |-> "fallback", http |-> NoHttp]
    ELSE [pc |-> "done",
          http |-> HTTPException(503, "AI service error: " \o r.response.error)]

\* An AfterFallback that labels the fallback's text with the provider of the
\* first attempt.
AfterFallbackFirstProvider(firstCall, r) ==
    IF r.raised
    THEN HTTPException(500, "Unexpected error: " \o r.exc)
    ELSE IF r.response.success
    THEN HttpReply(r.response.text, firstCall.response.provider, TRUE)
    ELSE HTTPException(503, "AI service error: " \o firstCall.response.error)

\* An AfterFallback that reports the error of the last attempt.
AfterFallbackLastError(firstCall, r) ==
    IF r.raised
    THEN HTTPException(500, "Unexpected error: " \o r.exc)
    ELSE IF r.response.success
    THEN HttpReply(r.response.text, r.response.provider, TRUE)
    ELSE HTTPException(503, "AI service error: " \o r.response.error)

\* chat_with_ai after the fallback generate_response: the fallback's text on
\* success, else the 503 with the first attempt's error.
AfterFallback(firstCall, r) ==
    IF r.raised
    THEN HTTPException(500, "Unexpected error: " \o r.exc)
    ELSE IF r.response.success
    THEN HttpReply(r.response.text, r.response.provider, TRUE)
    ELSE HTTPException(503, "AI service error: " \o firstCall.response.error)

(***************************************************************************)
(* Initial state: the manager as constructed at import of main.py.         *)
(***************************************************************************)
\* _get_first_available_provider gets as far as the Ollama adapter: it is in
\* the mapping and no adapter before it is configured.
SelectProbes(provs, keys) ==
    /\ "ollama" \in provs
    /\ \A p \in provs \ {"ollama"} : ~KeyConfigured(keys[p])

\* An environment the process can start in; the second Ollama probe has an
\* outcome exactly when _get_first_available_provider makes it.
StartEnv(e) ==
    /\ Cardinality({p \in KeyProviders : e.keys[p] # "unset"}) <= MaxKeys
    /\ (e.ollama_at_select # "not_probed")
         = SelectProbes(LoadProviders(e.keys, OllamaIsConfigured(e.ollama_at_load).value),
                        e.keys)

\* AIProviderManager.__init__ in environment e: the fields of the manager
\* and of its adapters after _load_providers, and whether it raised.
Manager(e) ==
    LET atLoad   == OllamaIsConfigured(e.ollama_at_load)
        atSelect == OllamaIsConfigured(e.ollama_at_select)
        provs    == LoadProviders(e.keys, atLoad.value)
    IN  [providers |-> provs,
         primary_provider |->
            PrimaryProvider(e.primary, FirstAvailableProvider(provs, e.keys, atSelect.value)),
         api_key |-> e.keys,
         client |-> (KeyConfigured(e.keys["google"]) /\ e.genai),
         raised |-> (atLoad.raised \/ atSelect.raised)]

\* The start-up environment is not kept once the manager is in use.
NoEnv ==
    [keys |-> [p \in KeyProviders |-> "unset"], genai |-> FALSE, primary |-> None,
     ollama_at_load |-> "not_probed", ollama_at_select |-> "not_probed"]

\* The manager as constructed at import of main.py, in any environment.
Init ==
    \E keys \in [KeyProviders -> KeyStates], genaiOk \in BOOLEAN,
       probeAtLoad \in ProbeOutcomes, probeAtSelect \in ProbeOutcomes \cup {"not_probed"},
       override \in PrimaryOverrides :
        LET e == [keys |-> keys, genai |-> genaiOk, primary |-> override,
                  ollama_at_load |-> probeAtLoad, ollama_at_select |-> probeAtSelect]
        IN
        /\ StartEnv(e)
        /\ ~Manager(e).raised
        /\ providers = Manager(e).providers
        /\ api_key = Manager(e).api_key
        /\ client = Manager(e).client
        /\ primary_provider = Manager(e).primary_provider
        /\ env = NoEnv
        /\ ollamaUp \in BOOLEAN
        /\ pc = "idle"
        /\ current_user = None
        /\ requests = [r \in RequestIds |-> NoRequest]
        /\ snapshots = <<>>
        /\ job_status = "active"
        /\ applications = <<>>
        /\ history = <<>>
        /\ calls = [w \in Workers |-> NoServiceCall]
        /\ returned = NoReturn
        /\ messages = <<>>
        /\ marked = NoMark
        /\ postings = <<>>
        /\ job_response = NoJobResponse
        /\ op = "none"
        /\ arg = None
        /\ first = NoCall
        /\ second = NoCall
        /\ http = NoHttp
        /\ status = NoStatus
        /\ resolved = <<>>
        /\ trace = <<>>

(***************************************************************************)
(* Actions.                                                                *)
(***************************************************************************)
\* No operation is in progress.
Idle == pc = "idle"

\* The outcomes the backend of adapter p can produce now: a server that is
\* down refuses the connection.
PossibleOutcomes(p) ==
    IF p = "ollama" /\ ~ollamaUp THEN {"exception"} ELSE Outcomes

\* The local Ollama server goes down or comes up. A change after an
\* operation has finished is seen by the next operation only, so it is taken
\* once the result has been handed back.
EnvChange ==
    /\ pc # "done"
    /\ ollamaUp' = ~ollamaUp
    /\ UNCHANGED <<fixed, pc, op, arg, first, second, http, status, resolved, trace>>

\* A get_provider that remembers a registered identifier it was asked for
\* as the new primary one.
GetProviderSetsPrimary(id) ==
    /\ Idle
    /\ op' = "get_provider"
    /\ arg' = id
    /\ resolved' = <<get_provider(providers, primary_provider, id)>>
    /\ primary_provider' = IF Truthy(id) /\ id \in providers THEN id ELSE primary_provider
    /\ trace' = <<>>
    /\ first' = NoCall /\ second' = NoCall /\ http' = NoHttp /\ status' = NoStatus
    /\ pc' = "done"
    /\ UNCHANGED <<providers, api_key, client, env, auth, snapshots, services, ollamaUp>>

\* AIProviderManager.get_provider(provider_id), called on its own.
GetProvider(id) ==
    /\ Idle
    /\ op' = "get_provider"
    /\ arg' = id
    /\ resolved' = <<get_provider(providers, primary_provider, id)>>
    /\ trace' = <<>>
    /\ first' = NoCall /\ second' = NoCall /\ http' = NoHttp /\ status' = NoStatus
    /\ pc' = "done"
    /\ UNCHANGED <<fixed, ollamaUp>>

\* AIProviderManager.get_status(), called on its own.
GetStatus ==
    /\ Idle
    /\ op' = "get_status"
    /\ arg' = None
    /\ status' = get_status(providers, primary_provider, api_key, ollamaUp)
    /\ trace' = StatusEvents(providers)
    /\ resolved' = <<>>
    /\ first' = NoCall /\ second' = NoCall /\ http' = NoHttp
    /\ pc' = "done"
    /\ UNCHANGED <<fixed, ollamaUp>>

\* AIProviderManager.generate_response(prompt, provider_id), called on its own.
GenerateResponse(id) ==
    /\ Idle
    /\ LET p == get_provider(providers, primary_provider, id) IN
       \E outcome \in PossibleOutcomes(p) :
        /\ first' = ManagerGenerate(p, api_key, client, outcome)
        /\ resolved' = <<p>>
        /\ trace' = GenerateEvents(p, api_key, client, outcome)
    /\ op' = "generate_response"
    /\ arg' = id
    /\ second' = NoCall /\ http' = NoHttp /\ status' = NoStatus
    /\ pc' = "done"
    /\ UNCHANGED <<fixed, ollamaUp>>

\* chat_with_ai up to its first generate_response: get_status, and the 503
\* when it counts no configured provider.
ChatStart(provider) ==
    /\ Idle
    /\ op' = "chat"
    /\ arg' = provider
    /\ LET st == get_status(providers, primary_provider, api_key, ollamaUp) IN
        /\ status' = st
        /\ IF st.total_configured = 0
           THEN /\ http' = HTTPException(503, "No AI providers configured.")
                /\ pc' = "done"
           ELSE /\ http' = NoHttp
                /\ pc' = "generate"
    /\ trace' = StatusEvents(providers)
    /\ resolved' = <<>>
    /\ first' = NoCall /\ second' = NoCall
    /\ UNCHANGED <<fixed, ollamaUp>>

\* chat_with_ai: ai_manager.generate_response(prompt, chat_message.provider)
\* and what follows it when no fallback is tried.
ChatGenerate ==
    /\ pc = "generate"
    /\ LET p == get_provider(providers, primary_provider, arg) IN
       \E outcome \in PossibleOutcomes(p) :
        LET r == ManagerGenerate(p, api_key, client, outcome) IN
        /\ first' = r
        /\ resolved' = Append(resolved, p)
        /\ trace' = trace \o GenerateEvents(p, api_key, client, outcome)
        /\ http' = AfterFirst(arg, r).http
        /\ pc' = AfterFirst(arg, r).pc
    /\ UNCHANGED <<fixed, ollamaUp, op, arg, second, status>>

\* chat_with_ai: the fallback ai_manager.generate_response(prompt) after a
\* failed attempt with an explicit provider, and the answer.
ChatFallback ==
    /\ pc = "fallback"
    /\ LET p == get_provider(providers, primary_provider, None) IN
       \E outcome \in PossibleOutcomes(p) :
        LET r == ManagerGenerate(p, api_key, client, outcome) IN
        /\ second' = r
        /\ resolved' = Append(resolved, p)
        /\ trace' = trace \o GenerateEvents(p, api_key, client, outcome)
        /\ http' = AfterFallback(first, r)
    /\ pc' = "done"
    /\ UNCHANGED <<fixed, ollamaUp, op, arg, first, status>>

\* The caller is done with the operation's result; the next operation starts
\* from the manager as it is.
Return ==
    /\ pc = "done"
    /\ pc' = "idle"
    /\ op' = "none"
    /\ arg' = None
    /\ first' = NoCall /\ second' = NoCall /\ http' = NoHttp /\ status' = NoStatus
    /\ resolved' = <<>>
    /\ trace' = <<>>
    /\ UNCHANGED <<fixed, ollamaUp>>

(***************************************************************************)
(* user_roles: the current user.                                           *)
(***************************************************************************)
\* authenticate_user behind the header test of auth_middleware: the user a
\* valid Bearer token names, else None.
authenticate_user(cred) == IF cred \in Users THEN cred ELSE None

\* set_current_user as auth_middleware uses it: the global is written only
\* when a user was authenticated.
AfterMiddleware(current, user) == IF user # None THEN user ELSE current

\* The wrapper of require_role(allowed): what it does with the user
\* get_current_user returns.
require_role(current, allowed) ==
    IF current = None THEN "Authentication required"
    ELSE IF user_role(current) \notin allowed THEN "Access denied"
    ELSE "called"

\* A request arrives and passes auth_middleware.
AuthMiddleware(r, cred) ==
    /\ requests[r].pc = "free"
    /\ LET user == authenticate_user(cred) IN
        /\ current_user' = AfterMiddleware(current_user, user)
        /\ requests' = [requests EXCEPT ![r] =
                            [pc |-> "handler", cred |-> cred, user |-> user,
                             seen |-> None, result |-> None]]
    /\ UNCHANGED <<registry, env, snapshots, services, ollamaUp, operation>>

\* The request reaches an endpoint function decorated with require_role.
RequireRole(r, allowed) ==
    /\ requests[r].pc = "handler"
    /\ requests' = [requests EXCEPT ![r].pc = "checked",
                                    ![r].seen = current_user,
                                    ![r].result = require_role(current_user, allowed)]
    /\ UNCHANGED <<registry, env, snapshots, services, ollamaUp, operation, current_user>>

\* The request is answered.
Respond(r) ==
    /\ requests[r].pc = "checked"
    /\ requests' = [requests EXCEPT ![r] = NoRequest]
    /\ UNCHANGED <<registry, env, snapshots, services, ollamaUp, operation, current_user>>

\* A process without AI configuration, serving requests.
InitAuth ==
    /\ providers = {}
    /\ primary_provider = None
    /\ api_key = [p \in KeyProviders |-> "unset"]
    /\ client = FALSE
    /\ env = NoEnv
    /\ ollamaUp = FALSE
    /\ pc = "idle"
    /\ op = "none"
    /\ arg = None
    /\ first = NoCall
    /\ second = NoCall
    /\ http = NoHttp
    /\ status = NoStatus
    /\ resolved = <<>>
    /\ trace = <<>>
    /\ current_user = None
    /\ requests = [r \in RequestIds |-> NoRequest]
    /\ snapshots = <<>>
    /\ job_status = "active"
    /\ applications = <<>>
    /\ history = <<>>
    /\ calls = [w \in Workers |-> NoServiceCall]
    /\ returned = NoReturn
    /\ messages = <<>>
    /\ marked = NoMark
    /\ postings = <<>>
    /\ job_response = NoJobResponse

NextAuth ==
    \/ \E r \in RequestIds, cred \in Credentials : AuthMiddleware(r, cred)
    \/ \E r \in RequestIds, allowed \in AllowedRoleLists : RequireRole(r, allowed)
    \/ \E r \in RequestIds : Respond(r)

SpecAuth == InitAuth /\ [][NextAuth]_vars

(***************************************************************************)
(* Construction of the manager as a step.                                  *)
(***************************************************************************)
\* AIProviderManager.__init__ before _load_providers, in any environment.
InitLoad ==
    \E keys \in [KeyProviders -> KeyStates], genaiOk \in BOOLEAN,
       probeAtLoad \in ProbeOutcomes, probeAtSelect \in ProbeOutcomes \cup {"not_probed"},
       override \in PrimaryOverrides :
        LET e == [keys |-> keys, genai |-> genaiOk, primary |-> override,
                  ollama_at_load |-> probeAtLoad, ollama_at_select |-> probeAtSelect]
        IN
        /\ StartEnv(e)
        /\ env = e
        /\ providers = {}
        /\ primary_provider = None
        /\ api_key = [p \in KeyProviders |-> "unset"]
        /\ client = FALSE
        /\ ollamaUp \in BOOLEAN
        /\ pc = "start"
        /\ op = "none"
        /\ arg = None
        /\ first = NoCall
        /\ second = NoCall
        /\ http = NoHttp
        /\ status = NoStatus
        /\ resolved = <<>>
        /\ trace = <<>>
        /\ current_user = None
        /\ requests = [r \in RequestIds |-> NoRequest]
        /\ snapshots = <<>>
        /\ job_status = "active"
        /\ applications = <<>>
        /\ history = <<>>
        /\ calls = [w \in Workers |-> NoServiceCall]
        /\ returned = NoReturn
        /\ messages = <<>>
        /\ marked = NoMark
        /\ postings = <<>>
        /\ job_response = NoJobResponse

\* _load_providers: the adapters are registered and the primary one chosen;
\* an exception that leaves it ends the construction.
LoadProvidersStep ==
    /\ pc = "start"
    /\ providers' = Manager(env).providers
    /\ primary_provider' = Manager(env).primary_provider
    /\ api_key' = Manager(env).api_key
    /\ client' = Manager(env).client
    /\ pc' = IF Manager(env).raised THEN "crashed" ELSE "idle"
    /\ UNCHANGED <<env, auth, snapshots, services, ollamaUp, op, arg, first, second, http, status,
                   resolved, trace>>

NextLoad ==
    \/ LoadProvidersStep
    \/ EnvChange
    \/ GetStatus
    \/ Return

SpecLoad == InitLoad /\ [][NextLoad]_vars

(***************************************************************************)
(* ApplicationService and the job posting status.                          *)
(***************************************************************************)
\* What the steps of the applicant tracking services leave alone.
outsideAts == <<registry, env, snapshots, ollamaUp, operation, requests, chat, jobs>>

\* The identifiers of the applications in the database.
ApplicationIds == 1..Len(applications)

\* The history entries a call in progress has still to write.
PendingEntries(w) ==
    CASE calls[w].pc \in {"insert", "commit", "history"} -> 1
      [] calls[w].pc = "bulk" -> Len(calls[w].rest)
      [] OTHER -> 0

RECURSIVE SumPending(_)
SumPending(ws) ==
    IF ws = {} THEN 0
    ELSE LET w == CHOOSE x \in ws : TRUE IN PendingEntries(w) + SumPending(ws \ {w})

\* The tables have room for what a new call may write.
RoomForHistory(n) == Len(history) + SumPending(Workers) + n <= MaxHistory

RoomForApplication ==
    Len(applications) + Cardinality({w \in Workers : calls[w].pc = "insert"})
        < MaxApplications

\* submit_application without the test of the job posting's status.
submit_application_any_status(user, apps, jobStatus, job, applicant) ==
    IF require_role(user, {"job_seeker"}) # "called"
    THEN "PermissionError: " \o require_role(user, {"job_seeker"})
    ELSE IF \E a \in 1..Len(apps) : apps[a].job = job /\ apps[a].applicant = applicant
    THEN "ValueError: You have already applied to this job"
    ELSE IF job # "job"
    THEN "ValueError: Job posting not found"
    ELSE "proceed"

\* submit_application up to the creation of the row: the role check of its
\* decorator, the query for an existing application and the checks of the
\* job posting.
submit_application(user, apps, jobStatus, job, applicant) ==
    IF require_role(user, {"job_seeker"}) # "called"
    THEN "PermissionError: " \o require_role(user, {"job_seeker"})
    ELSE IF \E a \in 1..Len(apps) : apps[a].job = job /\ apps[a].applicant = applicant
    THEN "ValueError: You have already applied to this job"
    ELSE IF job # "job"
    THEN "ValueError: Job posting not found"
    ELSE IF jobStatus # "active"
    THEN "ValueError: This job posting is no longer accepting applications"
    ELSE "proceed"

\* update_application_status without the test of the job posting's owner.
update_application_status_any_recruiter(user, apps, app, by) ==
    IF require_role(user, {"recruiter", "admin"}) # "called"
    THEN "PermissionError: " \o require_role(user, {"recruiter", "admin"})
    ELSE IF app \notin 1..Len(apps)
    THEN "None"
    ELSE "proceed"

\* update_application_status up to the assignment of the new status.
update_application_status(user, apps, app, by) ==
    IF require_role(user, {"recruiter", "admin"}) # "called"
    THEN "PermissionError: " \o require_role(user, {"recruiter", "admin"})
    ELSE IF app \notin 1..Len(apps)
    THEN "None"
    ELSE IF user_role(user) # "admin" /\ JobOwner # by
    THEN "ValueError: Access denied"
    ELSE "proceed"

\* withdraw_application with a query by the application's id alone.
withdraw_application_any_applicant(user, apps, app, applicant) ==
    IF require_role(user, {"job_seeker"}) # "called"
    THEN "PermissionError: " \o require_role(user, {"job_seeker"})
    ELSE IF app \notin 1..Len(apps)
    THEN "None"
    ELSE IF apps[app].status \in {"offered", "rejected"}
    THEN "ValueError: Cannot withdraw application at this stage"
    ELSE "proceed"

\* withdraw_application up to the assignment of WITHDRAWN.
withdraw_application(user, apps, app, applicant) ==
    IF require_role(user, {"job_seeker"}) # "called"
    THEN "PermissionError: " \o require_role(user, {"job_seeker"})
    ELSE IF app \notin 1..Len(apps) \/ apps[app].applicant # applicant
    THEN "None"
    ELSE IF apps[app].status \in {"offered", "rejected"}
    THEN "ValueError: Cannot withdraw application at this stage"
    ELSE "proceed"

\* The test of one iteration of bulk_update_applications.
bulk_update_access(user, by) ==
    IF user = None THEN "AttributeError"
    ELSE IF user_role(user) # "admin" /\ JobOwner # by THEN "skip"
    ELSE "proceed"

\* The public view of get_job_postings (no recruiter_id), with the optional
\* status filter.
get_job_postings(jobStatus, statusFilter) ==
    IF jobStatus = "active" /\ (statusFilter = None \/ statusFilter = jobStatus)
    THEN {"job"} ELSE {}

\* The row after the UPDATE a commit sends: the unit of work writes the
\* status when it differs from the loaded one, and the notes when given.
Updated(row, call) ==
    [row EXCEPT !.status = IF call.new_status # call.old_status THEN call.new_status ELSE @,
                !.notes = IF Truthy(call.notes) THEN call.notes ELSE @]

\* What a call hands back: the call with its result.
Returns(call, result) ==
    [op |-> call.op, job |-> call.job, app |-> call.app, applicant |-> call.applicant,
     by |-> call.by, user |-> call.user, result |-> result]

\* The row _create_status_history adds for a call.
HistoryEntry(call) ==
    [application |-> call.app, old_status |-> call.old_status,
     new_status |-> call.new_status]

\* The calls as their methods build them from the arguments.
SubmitCall(job, applicant) ==
    [NoServiceCall EXCEPT
        !.pc = "insert", !.op = "submit_application", !.job = job,
        !.applicant = applicant, !.new_status = "submitted", !.by = applicant,
        !.user = current_user]

UpdateCall(app, new_status, by, notes) ==
    [NoServiceCall EXCEPT
        !.pc = "commit", !.op = "update_application_status", !.app = app,
        !.old_status = IF app \in ApplicationIds THEN applications[app].status ELSE None,
        !.new_status = new_status, !.by = by, !.notes = notes, !.user = current_user]

WithdrawCall(app, applicant) ==
    [NoServiceCall EXCEPT
        !.pc = "commit", !.op = "withdraw_application", !.app = app,
        !.applicant = applicant,
        !.old_status = IF app \in ApplicationIds THEN applications[app].status ELSE None,
        !.new_status = "withdrawn", !.by = applicant, !.user = current_user]

BulkCall(ids, new_status, by, notes) ==
    [NoServiceCall EXCEPT
        !.pc = "bulk", !.op = "bulk_update_applications",
        !.rest = SelectSeq([i \in 1..Len(applications) |-> i], LAMBDA i : i \in ids),
        !.new_status = new_status, !.by = by, !.notes = notes, !.user = current_user]

\* One iteration of bulk_update_applications that passes its test: the row
\* and the history entry the commit inside _create_status_history writes.
BulkWrite(apps, hist, app, call) ==
    LET c == [call EXCEPT !.app = app, !.old_status = apps[app].status] IN
    [applications |-> [apps EXCEPT ![app] = Updated(@, c)],
     history |-> Append(hist, HistoryEntry(c))]

\* The loop of bulk_update_applications over the applications found, none
\* of which is skipped.
RECURSIVE BulkLoop(_, _, _, _)
BulkLoop(rest, apps, hist, call) ==
    IF rest = <<>> THEN [applications |-> apps, history |-> hist]
    ELSE LET w == BulkWrite(apps, hist, Head(rest), call)
         IN  BulkLoop(Tail(rest), w.applications, w.history, call)

\* set_current_user(user) for the next request; the result of the last call
\* has been handed back.
SetCurrentUser(u) ==
    /\ current_user' = u
    /\ returned' = NoReturn
    /\ UNCHANGED <<outsideAts, job_status, applications, history, calls>>

\* The job posting calls with their arguments.
JobCall(name, recruiter_id) ==
    [NoServiceCall EXCEPT !.op = name, !.job = "job", !.by = recruiter_id,
                          !.user = current_user]

\* The posting a job posting call finds: the role check of its decorator
\* and the query by job_id and recruiter_id.
FindsOwnJob(user, recruiter_id) ==
    require_role(user, {"recruiter", "admin"}) = "called" /\ recruiter_id = JobOwner

(***************************************************************************)
(* Service calls that run one at a time.                                   *)
(***************************************************************************)
\* JobPostingService.delete_job_posting(job_id, recruiter_id).
DeleteJobPosting(recruiter_id) ==
    /\ job_status' = IF FindsOwnJob(current_user, recruiter_id) THEN "closed"
                     ELSE job_status
    /\ returned' = Returns(JobCall("delete_job_posting", recruiter_id),
                           IF FindsOwnJob(current_user, recruiter_id) THEN "True"
                           ELSE "not done")
    /\ UNCHANGED <<outsideAts, current_user, applications, history, calls>>

\* JobPostingService.change_job_status(job_id, new_status, recruiter_id).
ChangeJobStatus(new_status, recruiter_id) ==
    /\ job_status' = IF FindsOwnJob(current_user, recruiter_id) THEN new_status
                     ELSE job_status
    /\ returned' = Returns(JobCall("change_job_status", recruiter_id),
                           IF FindsOwnJob(current_user, recruiter_id) THEN "job_posting"
                           ELSE "not done")
    /\ UNCHANGED <<outsideAts, current_user, applications, history, calls>>

\* submit_application(job_posting_id, applicant_id, data), from call to return.
Submit(job, applicant) ==
    LET res == submit_application(current_user, applications, job_status, job, applicant)
        call == [SubmitCall(job, applicant) EXCEPT !.app = Len(applications) + 1]
    IN
    /\ IF res = "proceed"
       THEN /\ Len(applications) < MaxApplications
            /\ Len(history) < MaxHistory
            /\ applications' = Append(applications,
                                      [job |-> job, applicant |-> applicant,
                                       status |-> "submitted", notes |-> None])
            /\ history' = Append(history, HistoryEntry(call))
            /\ returned' = Returns(call, "application")
       ELSE /\ returned' = Returns(SubmitCall(job, applicant), res)
            /\ UNCHANGED <<applications, history>>
    /\ UNCHANGED <<outsideAts, current_user, job_status, calls>>

\* update_application_status(application_id, new_status, updated_by, notes),
\* from call to return.
UpdateStatus(app, new_status, by, notes) ==
    LET res == update_application_status(current_user, applications, app, by)
        call == UpdateCall(app, new_status, by, notes)
    IN
    /\ IF res = "proceed"
       THEN /\ Len(history) < MaxHistory
            /\ applications' = [applications EXCEPT ![app] = Updated(@, call)]
            /\ history' = Append(history, HistoryEntry(call))
            /\ returned' = Returns(call, "application")
       ELSE /\ returned' = Returns(call, res)
            /\ UNCHANGED <<applications, history>>
    /\ UNCHANGED <<outsideAts, current_user, job_status, calls>>

\* withdraw_application(application_id, applicant_id), from call to return.
Withdraw(app, applicant) ==
    LET res == withdraw_application(current_user, applications, app, applicant)
        call == WithdrawCall(app, applicant)
    IN
    /\ IF res = "proceed"
       THEN /\ Len(history) < MaxHistory
            /\ applications' = [applications EXCEPT ![app] = Updated(@, call)]
            /\ history' = Append(history, HistoryEntry(call))
            /\ returned' = Returns(call, "application")
       ELSE /\ returned' = Returns(call, res)
            /\ UNCHANGED <<applications, history>>
    /\ UNCHANGED <<outsideAts, current_user, job_status, calls>>

\* bulk_update_applications(application_ids, new_status, updated_by, notes),
\* from call to return.
BulkUpdate(ids, new_status, by, notes) ==
    LET call == BulkCall(ids, new_status, by, notes)
        res == IF call.rest = <<>> THEN "skip"
               ELSE bulk_update_access(current_user, by)
        done == BulkLoop(call.rest, applications, history, call)
    IN
    /\ IF res = "proceed"
       THEN /\ Len(history) + Len(call.rest) <= MaxHistory
            /\ applications' = done.applications
            /\ history' = done.history
       ELSE UNCHANGED <<applications, history>>
    /\ returned' = Returns(call, IF res = "AttributeError" THEN res ELSE "list")
    /\ UNCHANGED <<outsideAts, current_user, job_status, calls>>

\* Applications are submitted while the job posting is closed and reopened.
NextSubmit ==
    \/ \E u \in Users : SetCurrentUser(u)
    \/ \E id \in CallerIds : DeleteJobPosting(id)
    \/ \E s \in NewJobStatuses, id \in CallerIds : ChangeJobStatus(s, id)
    \/ \E j \in JobIds, a \in ApplicantIds : Submit(j, a)

\* Applications to the active job posting are submitted and processed.
NextAtsSeq ==
    \/ \E u \in Users : SetCurrentUser(u)
    \/ \E j \in JobIds, a \in ApplicantIds : Submit(j, a)
    \/ \E app \in 1..MaxApplications, s \in NewStatuses, id \in CallerIds,
          n \in NotesValues : UpdateStatus(app, s, id, n)
    \/ \E app \in 1..MaxApplications, a \in ApplicantIds : Withdraw(app, a)
    \/ \E ids \in SUBSET (1..MaxApplications), s \in NewStatuses, id \in CallerIds :
          BulkUpdate(ids, s, id, None)

(***************************************************************************)
(* Service calls on worker threads, commit by commit.                      *)
(***************************************************************************)
\* A call starts on worker w: it goes on when its checks pass, else it
\* returns or raises at once and the worker stays free.
Start(w, call, res) ==
    /\ calls[w].pc = "free"
    /\ calls' = IF res = "proceed"
                THEN [calls EXCEPT ![w] = [call EXCEPT !.user = None]]
                ELSE calls

\* submit_application: the checks.
SubmitApplication(w, job, applicant) ==
    LET res == submit_application(current_user, applications, job_status, job, applicant)
    IN
    /\ res = "proceed" => (RoomForApplication /\ RoomForHistory(1))
    /\ Start(w, SubmitCall(job, applicant), res)
    /\ UNCHANGED <<outsideAts, current_user, job_status, applications, history, returned>>

\* submit_application: db.add(application); db.commit().
InsertApplication(w) ==
    /\ calls[w].pc = "insert"
    /\ applications' = Append(applications,
                              [job |-> calls[w].job, applicant |-> calls[w].applicant,
                               status |-> "submitted", notes |-> None])
    /\ calls' = [calls EXCEPT ![w].pc = "history", ![w].app = Len(applications) + 1]
    /\ UNCHANGED <<outsideAts, current_user, job_status, history, returned>>

\* update_application_status: the checks and the assignments to the loaded row.
UpdateApplicationStatus(w, app, new_status, by, notes) ==
    LET res == update_application_status(current_user, applications, app, by) IN
    /\ res = "proceed" => RoomForHistory(1)
    /\ Start(w, UpdateCall(app, new_status, by, notes), res)
    /\ UNCHANGED <<outsideAts, current_user, job_status, applications, history, returned>>

\* withdraw_application: the checks and the assignment to the loaded row.
WithdrawApplication(w, app, applicant) ==
    LET res == withdraw_application(current_user, applications, app, applicant) IN
    /\ res = "proceed" => RoomForHistory(1)
    /\ Start(w, WithdrawCall(app, applicant), res)
    /\ UNCHANGED <<outsideAts, current_user, job_status, applications, history, returned>>

\* db.commit() of update_application_status and of withdraw_application.
CommitStatus(w) ==
    /\ calls[w].pc = "commit"
    /\ applications' = [applications EXCEPT
                            ![calls[w].app] = Updated(@, calls[w])]
    /\ calls' = [calls EXCEPT ![w].pc = "history"]
    /\ UNCHANGED <<outsideAts, current_user, job_status, history, returned>>

\* _create_status_history as the last step of submit_application,
\* update_application_status and withdraw_application, and their return.
CreateStatusHistory(w) ==
    /\ calls[w].pc = "history"
    /\ history' = Append(history, HistoryEntry(calls[w]))
    /\ calls' = [calls EXCEPT ![w] = NoServiceCall]
    /\ UNCHANGED <<outsideAts, current_user, job_status, applications, returned>>

\* bulk_update_applications: the query for the applications named.
BulkUpdateApplications(w, ids, new_status, by, notes) ==
    LET call == BulkCall(ids, new_status, by, notes) IN
    /\ RoomForHistory(Len(call.rest))
    /\ Start(w, call, IF call.rest = <<>> THEN "list" ELSE "proceed")
    /\ UNCHANGED <<outsideAts, current_user, job_status, applications, history, returned>>

\* One iteration of the loop of bulk_update_applications, with the current
\* user it reads; the call returns after the last one.
BulkIteration(w) ==
    /\ calls[w].pc = "bulk"
    /\ LET app == Head(calls[w].rest)
           res == bulk_update_access(current_user, calls[w].by)
           rest == Tail(calls[w].rest)
           write == BulkWrite(applications, history, app, calls[w])
       IN
        /\ calls' = IF res = "AttributeError" \/ rest = <<>>
                    THEN [calls EXCEPT ![w] = NoServiceCall]
                    ELSE [calls EXCEPT ![w].rest = rest]
        /\ IF res = "proceed"
           THEN /\ applications' = write.applications
                /\ history' = write.history
           ELSE UNCHANGED <<applications, history>>
    /\ UNCHANGED <<outsideAts, current_user, job_status, returned>>

\* A database with one active job posting and no application.
InitAts ==
    /\ providers = {}
    /\ primary_provider = None
    /\ api_key = [p \in KeyProviders |-> "unset"]
    /\ client = FALSE
    /\ env = NoEnv
    /\ ollamaUp = FALSE
    /\ pc = "idle"
    /\ op = "none"
    /\ arg = None
    /\ first = NoCall
    /\ second = NoCall
    /\ http = NoHttp
    /\ status = NoStatus
    /\ resolved = <<>>
    /\ trace = <<>>
    /\ current_user = None
    /\ requests = [r \in RequestIds |-> NoRequest]
    /\ snapshots = <<>>
    /\ job_status = "active"
    /\ applications = <<>>
    /\ history = <<>>
    /\ calls = [w \in Workers |-> NoServiceCall]
    /\ returned = NoReturn
    /\ messages = <<>>
    /\ marked = NoMark
    /\ postings = <<>>
    /\ job_response = NoJobResponse

NextAts ==
    \/ \E u \in Users : SetCurrentUser(u)
    \/ \E w \in Workers, a \in RacingApplicants : SubmitApplication(w, "job", a)
    \/ \E w \in Workers : InsertApplication(w)
    \/ \E w \in Workers, app \in 1..MaxApplications, s \in RacingStatuses :
          UpdateApplicationStatus(w, app, s, JobOwner, None)
    \/ \E w \in Workers, app \in 1..MaxApplications, a \in RacingApplicants :
          WithdrawApplication(w, app, a)
    \/ \E w \in Workers : CommitStatus(w)
    \/ \E w \in Workers : CreateStatusHistory(w)
    \/ \E w \in Workers, ids \in SUBSET (1..MaxApplications), s \in RacingStatuses :
          BulkUpdateApplications(w, ids, s, JobOwner, None)
    \/ \E w \in Workers : BulkIteration(w)

SpecSubmit == InitAts /\ [][NextSubmit]_vars

SpecAtsSeq == InitAts /\ [][NextAtsSeq]_vars

SpecAts == InitAts /\ [][NextAts]_vars

(***************************************************************************)
(* ChatService: messages between users and their read marks.               *)
(***************************************************************************)
\* The users of table users that send, receive and read messages.
ChatUsers == {"seeker", "recruiter", "admin"}

\* The application_id arguments: none, the application of ChatApplicant to
\* the job posting of JobOwner, and an id of no application.
ChatApplicationIds == {None, "application", "no_such_application"}

ChatApplicant == "seeker"

\* The users whose mark_messages_as_read calls are followed.
ChatReaders == {"seeker"}

\* What the steps of ChatService leave alone.
outsideChat == <<registry, env, auth, snapshots, ats, jobs, ollamaUp, operation>>

\* send_message up to the creation of the row: the application must exist
\* and the two users must be its applicant and the recruiter of its job.
send_message(sender, recipient, application) ==
    IF ~Truthy(application) THEN "proceed"
    ELSE IF application # "application" THEN "ValueError: Application not found"
    ELSE IF ~(\/ sender = ChatApplicant /\ recipient = JobOwner
              \/ sender = JobOwner /\ recipient = ChatApplicant)
    THEN "ValueError: Not authorized to chat about this application"
    ELSE "proceed"

\* The query of mark_messages_as_read without the filter on application_id.
UnreadFromAnyApplication(msgs, user, partner, application) ==
    {i \in 1..Len(msgs) :
        /\ msgs[i].sender = partner
        /\ msgs[i].recipient = user
        /\ msgs[i].is_read = FALSE}

\* The rows the query of mark_messages_as_read finds.
UnreadFrom(msgs, user, partner, application) ==
    {i \in 1..Len(msgs) :
        /\ msgs[i].sender = partner
        /\ msgs[i].recipient = user
        /\ msgs[i].is_read = FALSE
        /\ Truthy(application) => msgs[i].application = application}

\* mark_messages_as_read(user_id, partner_id, application_id): the table
\* after its commit and the count it returns.
mark_messages_as_read(msgs, user, partner, application) ==
    LET found == UnreadFrom(msgs, user, partner, application) IN
    [messages |-> [i \in 1..Len(msgs) |->
                      IF i \in found
                      THEN [msgs[i] EXCEPT !.is_read = TRUE, !.read_at = "utcnow"]
                      ELSE msgs[i]],
     count |-> Cardinality(found)]

\* unread_count of a conversation in get_user_conversations.
unread_count(msgs, user, partner) ==
    Cardinality({i \in 1..Len(msgs) :
                    /\ msgs[i].sender = partner
                    /\ msgs[i].recipient = user
                    /\ msgs[i].is_read = FALSE})

\* ChatService.send_message(sender_id, recipient_id, message, application_id).
SendMessage(sender, recipient, application) ==
    /\ Len(messages) < MaxMessages
    /\ messages' = IF send_message(sender, recipient, application) = "proceed"
                   THEN Append(messages,
                               [sender |-> sender, recipient |-> recipient,
                                application |-> application, is_read |-> FALSE,
                                read_at |-> None])
                   ELSE messages
    /\ marked' = NoMark
    /\ UNCHANGED outsideChat

\* ChatService.mark_messages_as_read(user_id, partner_id, application_id).
MarkMessagesAsRead(user, partner, application) ==
    LET done == mark_messages_as_read(messages, user, partner, application) IN
    /\ messages' = done.messages
    /\ marked' = [op |-> "mark_messages_as_read", user |-> user, partner |-> partner,
                  application |-> application, count |-> done.count]
    /\ UNCHANGED outsideChat

NextChat ==
    \/ \E a, b \in ChatUsers, app \in ChatApplicationIds : SendMessage(a, b, app)
    \/ \E a \in ChatReaders, b \in ChatUsers, app \in ChatApplicationIds :
          MarkMessagesAsRead(a, b, app)

SpecChat == InitAts /\ [][NextChat]_vars

(***************************************************************************)
(* The job posting endpoints and the salary range.                         *)
(***************************************************************************)
\* salary_min and salary_max of JobPostingCreate, Optional[int]: <<>> is
\* None and <<n>> the integer n.
SalaryValues == {<<>>, <<0>>, <<1>>, <<2>>}

\* The truth value Python gives an Optional[int].
TruthyInt(x) == x # <<>> /\ x[1] # 0

\* What the steps of the job posting endpoints leave alone.
outsideJobs ==
    <<registry, env, requests, snapshots, ats, chat, ollamaUp, operation>>

\* The keys of the errors validate_job_posting_data returns for a body
\* that passed JobPostingCreate with a valid work_type.
validate_job_posting_data(salary_min, salary_max) ==
    IF TruthyInt(salary_min) /\ TruthyInt(salary_max) /\ salary_min[1] > salary_max[1]
    THEN {"salary"}
    ELSE {}

\* The role test of the two endpoints.
OnlyRecruiters(user) == user # None /\ user_role(user) = "recruiter"

\* POST /api/jobs.
CreateJobPosting(salary_min, salary_max) ==
    LET code == IF ~OnlyRecruiters(current_user) THEN 403
                ELSE IF validate_job_posting_data(salary_min, salary_max) # {} THEN 400
                ELSE 200
    IN
    /\ code = 200 => Len(postings) < MaxPostings
    /\ postings' = IF code = 200
                   THEN Append(postings,
                               [recruiter |-> current_user, salary_min |-> salary_min,
                                salary_max |-> salary_max])
                   ELSE postings
    /\ job_response' = [op |-> "create_job_posting", status |-> code]
    /\ UNCHANGED <<outsideJobs, current_user>>

\* PUT /api/jobs/{job_id}.
UpdateJobPosting(job_id, salary_min, salary_max) ==
    LET found == /\ job_id \in 1..Len(postings)
                 /\ postings[job_id].recruiter = current_user
        code == IF ~OnlyRecruiters(current_user) THEN 403
                ELSE IF ~found THEN 404
                ELSE 200
    IN
    /\ postings' = IF code = 200
                   THEN [postings EXCEPT ![job_id].salary_min = salary_min,
                                         ![job_id].salary_max = salary_max]
                   ELSE postings
    /\ job_response' = [op |-> "update_job_posting", status |-> code]
    /\ UNCHANGED <<outsideJobs, current_user>>

NextJobs ==
    \/ \E u \in Users : SetCurrentUser(u)
    \/ \E lo, hi \in SalaryValues : CreateJobPosting(lo, hi)
    \/ \E id \in 1..MaxPostings, lo, hi \in SalaryValues : UpdateJobPosting(id, lo, hi)

SpecJobs == InitAts /\ [][NextJobs]_vars

(***************************************************************************)
(* Repeated get_status calls.                                              *)
(***************************************************************************)
\* A caller calls get_status and keeps what it returned.
StatusCall ==
    /\ Idle
    /\ Len(snapshots) < MaxSnapshots
    /\ snapshots' = Append(snapshots,
                           get_status(providers, primary_provider, api_key, ollamaUp))
    /\ UNCHANGED <<registry, env, auth, services, ollamaUp, operation>>

NextStatus ==
    \/ StatusCall
    \/ EnvChange

SpecStatus == Init /\ [][NextStatus]_vars

Next ==
    \/ EnvChange
    \/ \E id \in RequestedIds : GetProvider(id)
    \/ GetStatus
    \/ \E id \in RequestedIds : GenerateResponse(id)
    \/ \E provider \in RequestedIds : ChatStart(provider)
    \/ ChatGenerate
    \/ ChatFallback
    \/ Return

Spec == Init /\ [][Next]_vars

(***************************************************************************)
(* Properties.                                                             *)
(***************************************************************************)
\* The adapter invocations of the operation, in order.
Invocations == SelectSeq(trace, LAMBDA e : e[1] = "generate")

\* The outbound network requests of the operation, in order.
NetworkRequests == SelectSeq(trace, LAMBDA e : e[1] \in {"POST", "GET"})

\* How often adapter p was invoked in the operation.
InvocationsOf(p) == Len(SelectSeq(trace, LAMBDA e : e = <<"generate", p>>))

\* The adapters the registry holds that report is_configured now.
ConfiguredNow == {p \in providers : is_configured(p, api_key, ollamaUp)}

\* A chat request has been answered.
ChatDone == op = "chat" /\ pc = "done"

\* The first attempt of the chat request invoked an adapter, which returned
\* a failure.
FirstAttemptFailed ==
    /\ Len(resolved) >= 1
    /\ resolved[1] # None
    /\ ~first.raised
    /\ ~first.response.success

\* C1: a chat request that names a provider, whose adapter fails, and whose
\* fallback attempt against the primary adapter succeeds is answered with
\* success = true, fallback = true and the name of the primary adapter, the
\* one that produced the text.
C1_FallbackSucceeds ==
    (/\ ChatDone
     /\ Truthy(arg)
     /\ FirstAttemptFailed
     /\ Len(resolved) = 2
     /\ ~second.raised
     /\ second.response.success)
    => /\ http.code = 200
       /\ http.success
       /\ http.has_fallback
       /\ http.fallback
       /\ resolved[2] = primary_provider
       /\ http.provider = provider_name(primary_provider)

C1_Witness ==
    /\ ChatDone
    /\ arg \in providers
    /\ arg # primary_provider
    /\ FirstAttemptFailed
    /\ Len(resolved) = 2
    /\ second.response.success
    /\ http.fallback

\* C2: within one chat request no adapter is invoked twice; when the named
\* adapter fails and is also the adapter the default resolves to, the
\* request is answered with the original failure after exactly one
\* invocation of that adapter.
C2_NoSecondAttemptOnSameAdapter ==
    ChatDone =>
        /\ \A p \in ProviderIds : InvocationsOf(p) <= 1
        /\ (/\ Truthy(arg)
            /\ FirstAttemptFailed
            /\ resolved[1] = get_provider(providers, primary_provider, None))
           => /\ Len(Invocations) = 1
              /\ http.code = 503
              /\ http.detail = "AI service error: " \o first.response.error

\* C3: a chat request invokes adapters at most twice (the first attempt and
\* at most one fallback), and at most once when it names no provider.
C3_SingleLevelRetry ==
    op = "chat" =>
        /\ Len(Invocations) <= 2
        /\ Len(resolved) <= 2
        /\ ~Truthy(arg) => (Len(Invocations) <= 1 /\ Len(resolved) <= 1)

C3_Witness ==
    /\ ChatDone
    /\ ~Truthy(arg)
    /\ FirstAttemptFailed
    /\ Len(Invocations) = 1
    /\ http.code = 503

\* C4: when the first attempt fails and the fallback fails too, or none is
\* tried, the chat request is answered with an error that carries the first
\* attempt's error message, never with a success.
C4_OriginalFailureReported ==
    (/\ ChatDone
     /\ FirstAttemptFailed
     /\ \/ Len(resolved) = 1
        \/ (~second.raised /\ ~second.response.success))
    => /\ http.code = 503
       /\ ~http.success
       /\ http.detail = "AI service error: " \o first.response.error

C4_Witness ==
    /\ ChatDone
    /\ FirstAttemptFailed
    /\ Len(resolved) = 2
    /\ resolved[2] # None
    /\ ~second.response.success
    /\ second.response.error # first.response.error
    /\ http.code = 503

\* C5: when the registry holds no configured adapter, the manager's
\* generate_response returns success = false with an error message, for
\* every identifier, and neither invokes an adapter nor sends a request.
C5_NoConfiguredAdapterNoCall ==
    (op = "generate_response" /\ pc = "done" /\ ConfiguredNow = {})
    => /\ ~first.raised
       /\ ~first.response.success
       /\ Truthy(first.response.error)
       /\ trace = <<>>

\* C6: a chat request that arrives while no adapter is configured is
\* answered 503 and sends no outbound request at all while it is handled,
\* neither a generation call nor a reachability probe.
C6_NoProviderNoNetwork ==
    (ChatDone /\ status.total_configured = 0)
    => /\ http.code = 503
       /\ NetworkRequests = <<>>

\* C7: get_provider(id) returns the adapter registered under id when id is a
\* key of the mapping, else the one registered under the primary identifier
\* when that is a key, else None; so generate_response with an identifier
\* that is not registered invokes the primary adapter.
C7_RegistryLookup ==
    (op \in {"get_provider", "generate_response"} /\ pc = "done")
    => /\ resolved[1] = (IF arg \in providers THEN arg
                         ELSE IF primary_provider \in providers THEN primary_provider
                         ELSE None)
       /\ (op = "generate_response" /\ arg \notin providers
                                    /\ primary_provider \in providers)
          => /\ trace[1] = <<"generate", primary_provider>>
             /\ first.response.provider = provider_name(primary_provider)

C7_Witness ==
    /\ op = "generate_response"
    /\ pc = "done"
    /\ arg = "bogus"
    /\ primary_provider \in providers
    /\ trace[1] = <<"generate", primary_provider>>

\* The backend outcomes that are failures: a transport exception, a status
\* other than 200, and the 200 bodies that are malformed or lack the
\* expected text field (a null text field is the subject of C9).
FailureOutcomes == {"exception", "non200", "ok_not_json", "ok_empty", "ok_missing_field"}

\* C8: an adapter's generate_response never raises; on a status other than
\* 200, a transport exception, a malformed or unexpected 200 body, or a
\* missing client or key, it returns success = false with an error message.
C8_FailureReturnedNotRaised ==
    (op = "generate_response" /\ pc = "done" /\ resolved[1] # None)
    => /\ ~first.raised
       /\ (NetworkRequests = <<>> \/ NetworkRequests[1][3] \in FailureOutcomes)
          => /\ ~first.response.success
             /\ Truthy(first.response.error)

\* C9: every AIResponse an adapter or the manager returns is well formed:
\* with success, a text is present and no error; without, an error is
\* present.
C9_ResponseWellFormed ==
    \A call \in {first, second} :
        (~call.raised /\ call.response # NoResponse)
        => /\ call.response.success
              => (call.response.text # None /\ call.response.error = None)
           /\ ~call.response.success => call.response.error # None

\* C10: the primary identifier, when set, is a key of the providers mapping,
\* whatever credentials and PRIMARY_AI_PROVIDER value the process started
\* with.
C10_PrimaryIsRegistered ==
    primary_provider # None => primary_provider \in providers

\* C11: whenever get_status reports total_configured > 0, a
\* generate_response without an explicit identifier resolves to an adapter
\* and invokes it, and does not return the "No AI provider configured"
\* failure (the chat handler calls it right after such a status).
C11_ConfiguredMeansResolvable ==
    (op = "chat" /\ ~Truthy(arg) /\ status.total_configured > 0 /\ Len(resolved) >= 1)
    => /\ resolved[1] # None
       /\ Invocations # <<>>
       /\ first.response.provider # "None"

\* The manager has been constructed.
Constructed == pc \notin {"start", "crashed"}

\* Adapter p reported is_configured when the manager was constructed: a key
\* adapter by its API key, the Ollama adapter by its probes.
ConfiguredAtStart(p) ==
    IF p = "ollama"
    THEN env.ollama_at_load = "ok200" /\ env.ollama_at_select = "ok200"
    ELSE env.keys[p] = "valid"

\* C12: the default identifier is the PRIMARY_AI_PROVIDER override when one
\* is present; otherwise the first configured adapter in the order google,
\* openai, anthropic, huggingface, openrouter, ollama; otherwise unset.
C12_DefaultByPreference ==
    LET order == <<"google", "openai", "anthropic", "huggingface", "openrouter", "ollama">>
    IN  Constructed =>
        /\ env.primary # None => primary_provider = env.primary
        /\ env.primary = None =>
            /\ \A i \in 1..Len(order) :
                    (/\ ConfiguredAtStart(order[i])
                     /\ \A j \in 1..(i - 1) : ~ConfiguredAtStart(order[j]))
                    => primary_provider = order[i]
            /\ (\A i \in 1..Len(order) : ~ConfiguredAtStart(order[i]))
               => primary_provider = None

C12_Witness ==
    /\ Constructed
    /\ env.primary = None
    /\ env.keys["google"] = "blank"
    /\ env.keys["openai"] = "valid"
    /\ primary_provider = "openai"

\* The identifiers in the configured_providers list of the last status.
ReportedConfigured ==
    {status.configured_providers[i] : i \in 1..Len(status.configured_providers)}

\* A credential was supplied for adapter p: its API key variable is set.
\* The Ollama adapter takes none.
CredentialSupplied(p) == p \in KeyProviders /\ api_key[p] # "unset"

\* C13 as stated: every adapter with no credential supplied reports
\* is_configured false and appears neither in the configured set of
\* get_status nor in the providers mapping.
C13_NoCredentialNotConfigured ==
    \A p \in ProviderIds :
        ~CredentialSupplied(p)
        => /\ ~is_configured(p, api_key, ollamaUp)
           /\ p \notin ReportedConfigured
           /\ p \notin providers

\* C13, amended: every adapter that takes an API key and has none supplied
\* reports is_configured false and appears neither in the configured set of
\* get_status nor in the providers mapping; the Ollama adapter, which takes
\* no credential, is reported configured only while it is registered.
C13_NoKeyNotConfigured ==
    /\ \A p \in KeyProviders :
        ~CredentialSupplied(p)
        => /\ ~is_configured(p, api_key, ollamaUp)
           /\ p \notin ReportedConfigured
           /\ p \notin providers
    /\ "ollama" \in ReportedConfigured => "ollama" \in providers

C13_Witness ==
    /\ op = "get_status"
    /\ pc = "done"
    /\ ~CredentialSupplied("google")
    /\ "ollama" \in ReportedConfigured
    /\ status.total_configured = 2

\* C14: every adapter stored in the providers mapping satisfied
\* is_configured when the mapping was built, also when an API key is present
\* but blank.
C14_RegisteredIsConfigured ==
    Constructed =>
        \A p \in providers :
            IF p = "ollama"
            THEN OllamaIsConfigured(env.ollama_at_load).value
            ELSE KeyConfigured(api_key[p])

\* C15: in every status get_status returns, total_configured is the number
\* of entries of configured_providers.
C15_TotalIsLength ==
    (op \in {"get_status", "chat"})
    => status.total_configured = Len(status.configured_providers)

C15_Witness ==
    /\ op = "get_status"
    /\ pc = "done"
    /\ Cardinality(providers) = 2
    /\ Len(status.configured_providers) = 1
    /\ status.total_configured = 1

\* C16: once the manager is constructed, no step of get_provider,
\* generate_response, get_status or of a chat request changes the providers
\* mapping or the primary identifier.
C16_RegistryUnchanged ==
    [][providers' = providers /\ primary_provider' = primary_provider]_vars

C16_Witness ==
    /\ op = "get_provider"
    /\ pc = "done"
    /\ arg \in providers
    /\ primary_provider \in providers
    /\ arg # primary_provider
    /\ resolved = <<arg>>

\* C17: a chat request ends either with a success response (reply, provider,
\* success = true, possibly fallback) or with an HTTP error status and a
\* descriptive detail, never with a response body that says success =
\* false; the fallback key is present only when the request named a
\* provider and the attempt with it failed; and without fallback the reply
\* is the text of the adapter's response.
C17_ChatOutcome ==
    ChatDone =>
        /\ \/ /\ http.code = 200
              /\ http.success
              /\ http.provider # None
              /\ http.detail = None
           \/ /\ http.code \in {500, 503}
              /\ ~http.success
              /\ Truthy(http.detail)
              /\ http.reply = None
              /\ ~http.has_fallback
        /\ http.has_fallback
           => /\ http.code = 200
              /\ http.fallback
              /\ Truthy(arg)
              /\ FirstAttemptFailed
        /\ (http.code = 200 /\ ~http.has_fallback)
           => /\ ~first.raised
              /\ first.response.success
              /\ http.reply = first.response.text
              /\ http.provider = first.response.provider

C17_Witness ==
    /\ ChatDone
    /\ arg \in providers
    /\ http.code = 200
    /\ ~http.has_fallback
    /\ Truthy(http.reply)
    /\ http.reply = first.response.text

\* C18: the identity a permission check consults while a request is handled
\* is the identity authenticated for that request; a request with missing
\* or invalid credentials is checked as unauthenticated, whatever earlier or
\* concurrent requests did.
C18_IdentityOfSameRequest ==
    \A r \in RequestIds :
        requests[r].pc = "checked"
        => /\ requests[r].seen = requests[r].user
           /\ requests[r].cred \in {"missing", "invalid"}
              => requests[r].result = "Authentication required"

\* C19: each invocation of the generate_response of an adapter held in the
\* registry issues exactly one outbound request, an HTTP POST.
C19_OneRequestPerInvocation ==
    (op = "generate_response" /\ pc = "done" /\ resolved[1] # None)
    => /\ Len(Invocations) = 1
       /\ Len(NetworkRequests) = 1
       /\ NetworkRequests[1][1] = "POST"
       /\ NetworkRequests[1][2] = resolved[1]

\* C20: is_configured of the Ollama adapter never raises; when the server
\* does not answer 200 (connection error, timeout, another status) it
\* returns false, the construction of the manager is not ended by an
\* exception, and the adapter is left out of the providers mapping.
C20_UnreachableOllamaLeftOut ==
    /\ pc # "crashed"
    /\ (Constructed /\ env.ollama_at_load \in {"connection_error", "timeout", "non200"})
       => /\ ~OllamaIsConfigured(env.ollama_at_load).raised
          /\ ~OllamaIsConfigured(env.ollama_at_load).value
          /\ "ollama" \notin providers

C20_Witness ==
    /\ Constructed
    /\ env.ollama_at_load = "timeout"
    /\ providers # {}
    /\ "ollama" \notin providers
    /\ primary_provider \in providers

\* C21: get_status is a read-only snapshot: any two calls made after the
\* manager is constructed return the same configured list, primary
\* identifier and count, whatever happens to the environment (the local
\* model server going down or coming up) between them.
C21_StatusIsStable ==
    \A i, j \in 1..Len(snapshots) :
        /\ snapshots[i].configured_providers = snapshots[j].configured_providers
        /\ snapshots[i].primary_provider = snapshots[j].primary_provider
        /\ snapshots[i].total_configured = snapshots[j].total_configured

\* C22: with exactly one adapter configured, whose backend answers with a
\* text, a chat request that names no provider is answered with success,
\* that text as the reply and that adapter's name as the provider, after
\* exactly one adapter invocation.
C22_SingleAdapterChat ==
    \A p \in ProviderIds :
        (/\ ChatDone
         /\ ~Truthy(arg)
         /\ providers = {p}
         /\ status.configured_providers = <<p>>
         /\ AdapterSends(p, api_key, client)
         /\ \A i \in 1..Len(NetworkRequests) :
                NetworkRequests[i][1] = "POST" => NetworkRequests[i][3] = "ok_text")
        => /\ http.code = 200
           /\ http.success
           /\ http.reply = "text"
           /\ http.provider = provider_name(p)
           /\ Invocations = <<<<"generate", p>>>>

\* C23: after any sequence or interleaving of submit_application calls,
\* concurrent ones of one applicant for one job included, at most one
\* application exists per pair of job posting and applicant.
C23_OneApplicationPerPair ==
    \A a, b \in ApplicationIds :
        (/\ applications[a].job = applications[b].job
         /\ applications[a].applicant = applications[b].applicant)
        => a = b

\* C24: submit_application creates an application only when the job posting
\* exists and is ACTIVE when the call checks it; a call for a job posting
\* that is not ACTIVE, one closed by delete_job_posting included, is
\* rejected and stores nothing; delete_job_posting leaves the job CLOSED,
\* and a CLOSED job is in no public listing, whatever the status filter.
C24_SubmitOnlyToActiveJob ==
    [][/\ applications' # applications
          => /\ job_status = "active"
             /\ returned'.op = "submit_application"
             /\ returned'.job = "job"
             /\ returned'.result = "application"
             /\ Len(applications') = Len(applications) + 1
       /\ (returned'.op = "submit_application" /\ job_status' # "active")
          => /\ returned'.result # "application"
             /\ applications' = applications
             /\ history' = history
       /\ (returned'.op = "delete_job_posting" /\ returned'.result = "True")
          => job_status' = "closed"
       /\ job_status' = "closed"
          => \A f \in JobStatuses \cup {None} : get_job_postings(job_status', f) = {}
      ]_vars

\* A job seeker's application to the closed job posting has been rejected.
C24_Witness ==
    /\ job_status = "closed"
    /\ returned.op = "submit_application"
    /\ returned.job = "job"
    /\ returned.user = "seeker"
    /\ returned.result
           = "ValueError: This job posting is no longer accepting applications"

\* C25: in every reachable state each application has at least one status
\* history entry, the new_status of its latest entry is its current status,
\* the old_status of every later entry is the new_status of the entry
\* before it, and its first entry has no old_status and new_status SUBMITTED.
C25_HistoryTracksStatus ==
    \A a \in ApplicationIds :
        LET entries == SelectSeq(history, LAMBDA e : e.application = a) IN
        /\ Len(entries) >= 1
        /\ entries[Len(entries)].new_status = applications[a].status
        /\ entries[1].old_status = None
        /\ entries[1].new_status = "submitted"
        /\ \A i \in 2..Len(entries) : entries[i].old_status = entries[i - 1].new_status

\* C26: a withdraw_application call that its role check lets in returns
\* none and changes nothing when the application is not applicant_id's; it
\* raises and leaves status and history unchanged when the status is OFFERED
\* or REJECTED; otherwise it sets the status to WITHDRAWN, touches no other
\* application and records one history entry from the previous status to
\* WITHDRAWN. A call the role check refuses changes nothing.
C26_WithdrawOwnApplicationOnly ==
    [][returned'.op = "withdraw_application"
       => LET app == returned'.app
              own == /\ app \in ApplicationIds
                     /\ applications[app].applicant = returned'.applicant
              let_in == require_role(returned'.user, {"job_seeker"}) = "called"
          IN
          /\ ~let_in
             => /\ returned'.result
                      = "PermissionError: " \o require_role(returned'.user, {"job_seeker"})
                /\ UNCHANGED <<applications, history>>
          /\ (let_in /\ ~own)
             => /\ returned'.result = "None"
                /\ UNCHANGED <<applications, history>>
          /\ (let_in /\ own /\ applications[app].status \in {"offered", "rejected"})
             => /\ returned'.result
                      = "ValueError: Cannot withdraw application at this stage"
                /\ UNCHANGED <<applications, history>>
          /\ (let_in /\ own /\ applications[app].status \notin {"offered", "rejected"})
             => /\ returned'.result = "application"
                /\ applications'
                      = [applications EXCEPT ![app].status = "withdrawn"]
                /\ history'
                      = Append(history,
                               [application |-> app,
                                old_status |-> applications[app].status,
                                new_status |-> "withdrawn"])
      ]_vars

\* A job seeker has withdrawn an application while another applicant's
\* application is in the database.
C26_Witness ==
    /\ returned.op = "withdraw_application"
    /\ returned.result = "application"
    /\ returned.app \in ApplicationIds
    /\ applications[returned.app].status = "withdrawn"
    /\ \E b \in ApplicationIds :
           applications[b].applicant # returned.applicant

\* C27: update_application_status changes an application only when the
\* current user is an admin or updated_by is the recruiter who owns the job
\* posting; any other caller gets 'Access denied' or a permission error and
\* applications (status, notes) and history are unchanged; for an
\* application that does not exist a caller the role check lets in gets none
\* and nothing is changed; a change touches the named application alone and
\* records one history entry from its previous status to its new one.
C27_UpdateByOwnerOrAdminOnly ==
    [][returned'.op = "update_application_status"
       => LET app == returned'.app
              user == returned'.user
              let_in == require_role(user, {"recruiter", "admin"}) = "called"
              exists == app \in ApplicationIds
              allowed == user_role(user) = "admin" \/ returned'.by = JobOwner
          IN
          /\ <<applications, history>>' # <<applications, history>>
             => let_in /\ exists /\ allowed
          /\ ~let_in
             => /\ returned'.result
                      = "PermissionError: "
                            \o require_role(user, {"recruiter", "admin"})
                /\ UNCHANGED <<applications, history>>
          /\ (let_in /\ ~exists)
             => /\ returned'.result = "None"
                /\ UNCHANGED <<applications, history>>
          /\ (let_in /\ exists /\ ~allowed)
             => /\ returned'.result = "ValueError: Access denied"
                /\ UNCHANGED <<applications, history>>
          /\ (let_in /\ exists /\ allowed)
             => /\ returned'.result = "application"
                /\ \A b \in ApplicationIds \ {app} : applications'[b] = applications[b]
                /\ Len(applications') = Len(applications)
                /\ Len(history') = Len(history) + 1
                /\ SubSeq(history', 1, Len(history)) = history
                /\ history'[Len(history')].application = app
                /\ history'[Len(history')].old_status = applications[app].status
                /\ history'[Len(history')].new_status = applications'[app].status
      ]_vars

\* An admin who does not own the job posting has changed an application's
\* status.
C27_Witness ==
    /\ returned.op = "update_application_status"
    /\ returned.result = "application"
    /\ returned.user = "admin"
    /\ returned.by # JobOwner
    /\ returned.app \in ApplicationIds
    /\ applications[returned.app].status \in NewStatuses

\* C28: across all ApplicationService operations, the status of an
\* application is changed to a value other than WITHDRAWN only while the
\* current user exists and has role RECRUITER or ADMIN.
C28_StatusChangedByRecruiterOrAdmin ==
    [][\A a \in ApplicationIds :
          (/\ applications'[a].status # applications[a].status
           /\ applications'[a].status # "withdrawn")
          => /\ current_user # None
             /\ user_role(current_user) \in {"recruiter", "admin"}
      ]_vars

\* C29 (as stated): mark_messages_as_read(user, partner) marks as read
\* exactly the unread messages partner sent to user, within the application
\* when one is given, leaves every other message unchanged, returns the
\* number it marked, an immediate second call returns 0 and changes nothing,
\* and afterwards the unread count from that partner is 0.
C29_MarkedReadAndCountZero ==
    [][marked'.op = "mark_messages_as_read"
       => LET user == marked'.user
              partner == marked'.partner
              application == marked'.application
              scope == {i \in 1..Len(messages) :
                           /\ messages[i].sender = partner
                           /\ messages[i].recipient = user
                           /\ ~messages[i].is_read
                           /\ Truthy(application)
                              => messages[i].application = application}
          IN
          /\ Len(messages') = Len(messages)
          /\ \A i \in scope :
                /\ messages'[i].is_read
                /\ [messages'[i] EXCEPT !.is_read = FALSE, !.read_at = None]
                      = messages[i]
          /\ \A i \in (1..Len(messages)) \ scope : messages'[i] = messages[i]
          /\ marked'.count = Cardinality(scope)
          /\ (/\ marked.op = "mark_messages_as_read"
              /\ marked.user = user
              /\ marked.partner = partner
              /\ marked.application = application)
             => marked'.count = 0 /\ messages' = messages
          /\ unread_count(messages', user, partner) = 0
      ]_vars

\* C29 (amended): the same, with the unread count from that partner 0
\* after a call that names no application; after a call that names one, no
\* unread message of partner to user is left within that application.
C29_MarkedReadWithinScope ==
    [][marked'.op = "mark_messages_as_read"
       => LET user == marked'.user
              partner == marked'.partner
              application == marked'.application
              scope == {i \in 1..Len(messages) :
                           /\ messages[i].sender = partner
                           /\ messages[i].recipient = user
                           /\ ~messages[i].is_read
                           /\ Truthy(application)
                              => messages[i].application = application}
          IN
          /\ Len(messages') = Len(messages)
          /\ \A i \in scope :
                /\ messages'[i].is_read
                /\ [messages'[i] EXCEPT !.is_read = FALSE, !.read_at = None]
                      = messages[i]
          /\ \A i \in (1..Len(messages)) \ scope : messages'[i] = messages[i]
          /\ marked'.count = Cardinality(scope)
          /\ (/\ marked.op = "mark_messages_as_read"
              /\ marked.user = user
              /\ marked.partner = partner
              /\ marked.application = application)
             => marked'.count = 0 /\ messages' = messages
          /\ \A i \in 1..Len(messages') :
                (/\ messages'[i].sender = partner
                 /\ messages'[i].recipient = user
                 /\ ~messages'[i].is_read)
                => /\ Truthy(application)
                   /\ messages'[i].application # application
          /\ ~Truthy(application) => unread_count(messages', user, partner) = 0
      ]_vars

\* A call restricted to an application has marked a message and left an
\* unread message of the same partner outside the application alone.
C29_Witness ==
    /\ marked.op = "mark_messages_as_read"
    /\ marked.application = "application"
    /\ marked.count = 1
    /\ \E i, j \in 1..Len(messages) :
          /\ messages[i].sender = marked.partner
          /\ messages[i].recipient = marked.user
          /\ messages[i].application = "application"
          /\ messages[i].is_read
          /\ messages[j].sender = marked.partner
          /\ messages[j].recipient = marked.user
          /\ messages[j].application = None
          /\ ~messages[j].is_read

\* C30: every stored job posting that has both salary bounds set has
\* salary_min <= salary_max, after any sequence of create and update
\* requests through the job posting endpoints.
C30_SalaryBoundsOrdered ==
    \A i \in 1..Len(postings) :
        (postings[i].salary_min # <<>> /\ postings[i].salary_max # <<>>)
        => postings[i].salary_min[1] <= postings[i].salary_max[1]

====
